---- MODULE Spec2Model ----
(***************************************************************************)
(* One run of the dashboard script streamlit_visualizer.py: the two CSV    *)
(* files are read, the sidebar yields a selection, the scoreboard and the  *)
(* roster tables are filtered, and the derived tables (cumulative win      *)
(* percentage, head-to-head win matrix, head-to-head average points,       *)
(* summary metrics) are computed from the filtered scoreboard.             *)
(*                                                                         *)
(* Floating-point quotients (win_percentage, the means) are kept as exact  *)
(* fractions <<numerator, denominator>>; chart calls change no state and   *)
(* are left out.                                                           *)
(***************************************************************************)
EXTENDS Integers, Sequences, FiniteSets, TLC

\* ---- bounds of the explored inputs ----
MaxWeek == 2
MaxMatchup == 1
MaxPoints == 2
MaxRows == 4
MaxWinRows == 3
MaxFilterRows == 2

Entities == {"A", "B", "C"}

\* the two entities of the tables that may hold any rows
Pair == {"A", "B"}

\* an absent file, None and NaN are the empty tuple; a file's content, a loaded
\* table and a number are the one-element tuple of the value
NoFile == <<>>
None == <<>>
NaN == <<>>
Some(x) == <<x>>

ROSTERS_PATH == "rosters_csv/master_rosters.csv"
SCOREBOARD_PATH == "weekly_scoreboard_csv/master_scoreboard.csv"

VARIABLES
    pc,                  \* position of the script
    rosters_file,        \* content of rosters_csv/master_rosters.csv, or NoFile
    scoreboard_file,     \* content of weekly_scoreboard_csv/master_scoreboard.csv, or NoFile
    rosters_df,
    scoreboard_df,
    errors,              \* messages shown with st.error, in order
    selected_teams,
    week_range,
    filtered_scoreboard,
    filtered_rosters,
    win_data,
    team_idx,            \* position of the loop "for team in selected_teams"
    win_matrix,
    h2h_points,
    avg_h2h,
    avg_points,
    max_points,
    top_scorer,
    total_games,
    weeks_played,
    fault                \* the exception that ended the run, or "none"

vars == <<pc, rosters_file, scoreboard_file, rosters_df, scoreboard_df, errors,
          selected_teams, week_range, filtered_scoreboard, filtered_rosters,
          win_data, team_idx, win_matrix, h2h_points, avg_h2h, avg_points,
          max_points, top_scorer, total_games, weeks_played, fault>>

\* ---- helpers ----
Range(s) == {s[i] : i \in 1..Len(s)}

SeqsUpTo(S, n) == UNION {[1..k -> S] : k \in 0..n}

TeamKey(e) == "key" \o e

RECURSIVE SumPoints(_)
SumPoints(s) == IF s = <<>> THEN 0 ELSE Head(s).team_points + SumPoints(Tail(s))

MaxOf(S) == CHOOSE x \in S : \A y \in S : y <= x

\* ---- input tables ----
\* a scoreboard row; team_key is the key of the row's own team
ScoreRows(matchups, entities, points, winners) ==
    {[week |-> w, matchup_id |-> m, manager_nickname |-> e, team_points |-> p,
      team_key |-> TeamKey(e), winner_team_key |-> k] :
        w \in 1..MaxWeek, m \in matchups, e \in entities,
        p \in points, k \in winners}

RosterRows == [week : 1..MaxWeek, manager_name : Pair]

\* tables in which an entity has at most one row per (week, matchup_id)
OncePerMatchup(tables) ==
    {t \in tables :
        \A i, j \in 1..Len(t) :
            (/\ i # j
             /\ t[i].week = t[j].week
             /\ t[i].matchup_id = t[j].matchup_id)
                => t[i].manager_nickname # t[j].manager_nickname}

\* ---- state before the script runs ----
InitWith(scoreboards, rosters) ==
    /\ pc = "load_data"
    /\ scoreboard_file \in {NoFile} \cup {Some(t) : t \in scoreboards}
    /\ rosters_file \in {NoFile} \cup {Some(t) : t \in rosters}
    /\ rosters_df = None
    /\ scoreboard_df = None
    /\ errors = <<>>
    /\ selected_teams = <<>>
    /\ week_range = <<1, 1>>
    /\ filtered_scoreboard = <<>>
    /\ filtered_rosters = <<>>
    /\ win_data = <<>>
    /\ team_idx = 0
    /\ win_matrix = <<>>
    /\ h2h_points = <<>>
    /\ avg_h2h = {}
    /\ avg_points = NaN
    /\ max_points = NaN
    /\ top_scorer = ""
    /\ total_games = 0
    /\ weeks_played = 0
    /\ fault = "none"

OneRoster == {<<[week |-> 1, manager_name |-> "A"]>>}

\* a scoreboard with both entities of Pair and every week up to MaxWeek
OneScoreboard ==
    {<<[week |-> MaxWeek, matchup_id |-> 1, manager_nickname |-> "A", team_points |-> 1,
        team_key |-> TeamKey("A"), winner_team_key |-> "keyA"],
       [week |-> 1, matchup_id |-> 1, manager_nickname |-> "B", team_points |-> 1,
        team_key |-> TeamKey("B"), winner_team_key |-> "keyA"]>>}

\* scoreboards of three entities, each at most once per matchup
Init ==
    InitWith(OncePerMatchup(SeqsUpTo(
                 ScoreRows(1..MaxMatchup, Entities, 1..MaxPoints, {"keyA"}), MaxRows)),
             OneRoster)

\* scoreboards of two entities holding any rows, repeated ones included
InitAny ==
    InitWith(SeqsUpTo(ScoreRows(1..MaxMatchup, Pair, 1..MaxPoints, {"keyA"}), MaxRows),
             OneRoster)

\* scoreboards whose winner varies (cumulative win percentage)
InitWin ==
    InitWith(SeqsUpTo(ScoreRows({1}, Pair, {1}, {TeamKey(e) : e \in Pair}), MaxWinRows),
             OneRoster)

\* a varying scoreboard, or a varying roster (the two filters)
InitFilter ==
    \/ InitWith(SeqsUpTo(ScoreRows(1..MaxMatchup, Pair, {1}, {"keyA"}), MaxFilterRows),
                OneRoster)
    \/ InitWith(OneScoreboard, SeqsUpTo(RosterRows, MaxFilterRows))

\* ---- load_data ----
FileNotFound(path) == "Could not load data files: " \o path

\* pd.read_csv: the table, or FileNotFoundError when the file is absent
load_data ==
    /\ pc = "load_data"
    /\ IF rosters_file = NoFile
         THEN /\ errors' = Append(errors, FileNotFound(ROSTERS_PATH))
              /\ rosters_df' = None
              /\ scoreboard_df' = None
         ELSE IF scoreboard_file = NoFile
           THEN /\ errors' = Append(errors, FileNotFound(SCOREBOARD_PATH))
                /\ rosters_df' = None
                /\ scoreboard_df' = None
           ELSE /\ errors' = errors
                /\ rosters_df' = rosters_file
                /\ scoreboard_df' = scoreboard_file
    /\ pc' = "guard"
    /\ UNCHANGED <<rosters_file, scoreboard_file, selected_teams, week_range,
                   filtered_scoreboard, filtered_rosters, win_data, team_idx,
                   win_matrix, h2h_points, avg_h2h, avg_points, max_points,
                   top_scorer, total_games, weeks_played, fault>>

\* the else branch of "if rosters_df is not None and scoreboard_df is not None"
NotLoaded ==
    /\ pc = "guard"
    /\ ~(rosters_df # None /\ scoreboard_df # None)
    /\ errors' = Append(errors, "Could not load the required CSV files.")
    /\ pc' = "done"
    /\ UNCHANGED <<rosters_file, scoreboard_file, rosters_df, scoreboard_df,
                   selected_teams, week_range, filtered_scoreboard,
                   filtered_rosters, win_data, team_idx, win_matrix, h2h_points,
                   avg_h2h, avg_points, max_points, top_scorer, total_games,
                   weeks_played, fault>>

\* ---- sidebar ----
\* teams = sorted(scoreboard_df['manager_nickname'].unique())
teams(df) == {df[i].manager_nickname : i \in 1..Len(df)}

\* the values st.sidebar.multiselect can return: the chosen options, each once,
\* in the order they were chosen
Multiselect(options) ==
    {s \in SeqsUpTo(options, Cardinality(options)) :
        \A i, j \in 1..Len(s) : i # j => s[i] # s[j]}

\* the values st.sidebar.slider(1, max_week, (1, max_week)) can return
Slider(lo, hi) == {r \in (lo..hi) \X (lo..hi) : r[1] <= r[2]}

\* int(scoreboard_df['week'].max()) raises ValueError on an empty table (max is NaN)
Sidebar ==
    /\ pc = "guard"
    /\ rosters_df # None /\ scoreboard_df # None
    /\ IF scoreboard_df[1] = <<>>
         THEN /\ \E st \in Multiselect(teams(scoreboard_df[1])) : selected_teams' = st
              /\ fault' = "ValueError"
              /\ pc' = "fault"
              /\ UNCHANGED week_range
         ELSE LET max_week == MaxOf({scoreboard_df[1][i].week : i \in 1..Len(scoreboard_df[1])}) IN
              /\ \E st \in Multiselect(teams(scoreboard_df[1])) : selected_teams' = st
              /\ \E wr \in Slider(1, max_week) : week_range' = wr
              /\ pc' = "filter_scoreboard"
              /\ UNCHANGED fault
    /\ UNCHANGED <<rosters_file, scoreboard_file, rosters_df, scoreboard_df, errors,
                   filtered_scoreboard, filtered_rosters, win_data, team_idx,
                   win_matrix, h2h_points, avg_h2h, avg_points, max_points,
                   top_scorer, total_games, weeks_played>>

\* ---- filters ----
isin(x, seq) == x \in Range(seq)

between_exclusive(x, lo, hi) == lo < x /\ x <= hi

\* Series.between(lo, hi): inclusive at both ends
between(x, lo, hi) == lo <= x /\ x <= hi

\* scoreboard_df[isin(selected_teams) & between(week_range)]: rows kept in order
filter_scoreboard(df, sel, wr) ==
    SelectSeq(df, LAMBDA row : isin(row.manager_nickname, sel)
                               /\ between(row.week, wr[1], wr[2]))

\* rosters_df[isin(selected_teams) & between(week_range)]
filter_rosters(df, sel, wr) ==
    SelectSeq(df, LAMBDA row : isin(row.manager_name, sel)
                               /\ between(row.week, wr[1], wr[2]))

FilterScoreboard ==
    /\ pc = "filter_scoreboard"
    /\ filtered_scoreboard' = filter_scoreboard(scoreboard_df[1], selected_teams, week_range)
    /\ win_data' = <<>>
    /\ team_idx' = 1
    /\ pc' = "tab1"
    /\ UNCHANGED <<rosters_file, scoreboard_file, rosters_df, scoreboard_df, errors,
                   selected_teams, week_range, filtered_rosters, win_matrix,
                   h2h_points, avg_h2h, avg_points, max_points, top_scorer,
                   total_games, weeks_played, fault>>

\* ---- tab1: cumulative win percentage ----
\* sort_values('week'): the default sort is not stable, so rows of one week
\* may come out in any order
sort_values(df) ==
    {[i \in 1..Len(df) |-> df[p[i]]] : p \in
        {q \in Permutations(1..Len(df)) :
            \A i, j \in 1..Len(df) : i < j => df[q[i]].week <= df[q[j]].week}}

\* (winner_team_key == team_key).astype(int)
wins(team_data) ==
    [i \in 1..Len(team_data) |->
        IF team_data[i].winner_team_key = team_data[i].team_key THEN 1 ELSE 0]

RECURSIVE cumsum(_)
cumsum(s) ==
    IF s = <<>> THEN <<>>
    ELSE LET c == cumsum(SubSeq(s, 1, Len(s) - 1))
         IN  Append(c, (IF c = <<>> THEN 0 ELSE c[Len(c)]) + s[Len(s)])

games_played_plus1(n) == [i \in 1..n |-> i + 1]

\* range(1, len(team_data) + 1)
games_played(n) == [i \in 1..n |-> i]

\* (cumulative_wins / games_played) * 100, as the fraction <<numerator, denominator>>
win_percentage(cumulative_wins, games) ==
    [i \in 1..Len(games) |-> <<cumulative_wins[i] * 100, games[i]>>]

\* team_data[['week', 'manager_nickname', 'win_percentage']]
team_win_data(team_data) ==
    LET pct == win_percentage(cumsum(wins(team_data)), games_played(Len(team_data)))
    IN  [i \in 1..Len(team_data) |->
            [week |-> team_data[i].week,
             manager_nickname |-> team_data[i].manager_nickname,
             win_percentage |-> pct[i]]]

\* one iteration of "for team in selected_teams"
WinDataStep ==
    /\ pc = "tab1"
    /\ team_idx <= Len(selected_teams)
    /\ LET team == selected_teams[team_idx]
           rows == SelectSeq(filtered_scoreboard, LAMBDA r : r.manager_nickname = team)
       IN  \E team_data \in sort_values(rows) :
               win_data' = Append(win_data, team_win_data(team_data))
    /\ team_idx' = team_idx + 1
    /\ UNCHANGED <<pc, rosters_file, scoreboard_file, rosters_df, scoreboard_df, errors,
                   selected_teams, week_range, filtered_scoreboard, filtered_rosters,
                   win_matrix, h2h_points, avg_h2h, avg_points, max_points,
                   top_scorer, total_games, weeks_played, fault>>

\* ---- tab2: the roster filter, once the loop of tab1 has ended ----
FilterRosters ==
    /\ pc = "tab1"
    /\ team_idx > Len(selected_teams)
    /\ filtered_rosters' = filter_rosters(rosters_df[1], selected_teams, week_range)
    /\ pc' = "tab4_matrix"
    /\ UNCHANGED <<rosters_file, scoreboard_file, rosters_df, scoreboard_df, errors,
                   selected_teams, week_range, filtered_scoreboard, win_data,
                   team_idx, win_matrix, h2h_points, avg_h2h, avg_points,
                   max_points, top_scorer, total_games, weeks_played, fault>>

\* ---- tab4: head-to-head ----
\* matchups[(week == row.week) & (matchup_id == row.matchup_id)]
week_matchups(matchups, row) ==
    SelectSeq(matchups, LAMBDA r : r.week = row.week /\ r.matchup_id = row.matchup_id)

\* pd.DataFrame(index=selected_teams, columns=selected_teams, data=0)
ZeroMatrix(sel) == [w \in Range(sel) |-> [l \in Range(sel) |-> 0]]

\* team1 if team1.points > team2.points else team2
Winner(team1, team2) ==
    IF team1.team_points > team2.team_points
      THEN team1.manager_nickname ELSE team2.manager_nickname

\* team2 if winner == team1 else team1
Loser(team1, team2) ==
    IF Winner(team1, team2) = team1.manager_nickname
      THEN team2.manager_nickname ELSE team1.manager_nickname

\* the body of "for _, row in matchups.iterrows()" of the win matrix
MatrixRow(matchups, sel, row, m) ==
    LET wm == week_matchups(matchups, row) IN
    IF Len(wm) = 2
      THEN IF isin(wm[1].manager_nickname, sel) /\ isin(wm[2].manager_nickname, sel)
             THEN LET winner == Winner(wm[1], wm[2])
                      loser == Loser(wm[1], wm[2])
                  IN  [m EXCEPT ![winner][loser] = @ + 1]
             ELSE m
      ELSE m

RECURSIVE MatrixLoop(_, _, _, _)
MatrixLoop(matchups, sel, i, m) ==
    IF i > Len(matchups) THEN m
    ELSE MatrixLoop(matchups, sel, i + 1, MatrixRow(matchups, sel, matchups[i], m))

WinMatrix ==
    /\ pc = "tab4_matrix"
    /\ win_matrix' = MatrixLoop(filtered_scoreboard, selected_teams, 1,
                                ZeroMatrix(selected_teams))
    /\ pc' = "tab4_h2h"
    /\ UNCHANGED <<rosters_file, scoreboard_file, rosters_df, scoreboard_df, errors,
                   selected_teams, week_range, filtered_scoreboard, filtered_rosters,
                   win_data, team_idx, h2h_points, avg_h2h, avg_points, max_points,
                   top_scorer, total_games, weeks_played, fault>>

H2HRow_swapped(matchups, sel, row, h) ==
    LET wm == week_matchups(matchups, row) IN
    IF Len(wm) = 2
      THEN IF isin(wm[1].manager_nickname, sel) /\ isin(wm[2].manager_nickname, sel)
             THEN h \o <<[team |-> wm[1].manager_nickname,
                          opponent |-> wm[2].manager_nickname,
                          points |-> wm[2].team_points],
                         [team |-> wm[2].manager_nickname,
                          opponent |-> wm[1].manager_nickname,
                          points |-> wm[1].team_points]>>
             ELSE h
      ELSE h

\* the body of "for _, row in matchups.iterrows()" of the average points
H2HRow(matchups, sel, row, h) ==
    LET wm == week_matchups(matchups, row) IN
    IF Len(wm) = 2
      THEN IF isin(wm[1].manager_nickname, sel) /\ isin(wm[2].manager_nickname, sel)
             THEN h \o <<[team |-> wm[1].manager_nickname,
                          opponent |-> wm[2].manager_nickname,
                          points |-> wm[1].team_points],
                         [team |-> wm[2].manager_nickname,
                          opponent |-> wm[1].manager_nickname,
                          points |-> wm[2].team_points]>>
             ELSE h
      ELSE h

RECURSIVE H2HLoop(_, _, _, _)
H2HLoop(matchups, sel, i, h) ==
    IF i > Len(matchups) THEN h
    ELSE H2HLoop(matchups, sel, i + 1, H2HRow(matchups, sel, matchups[i], h))

RECURSIVE SumField(_)
SumField(s) == IF s = <<>> THEN 0 ELSE Head(s).points + SumField(Tail(s))

\* h2h_df.groupby(['team', 'opponent'])['points'].mean(): one record per pair
\* that occurs, its mean as the fraction <<sum, count>>
GroupMean(h) ==
    {[team |-> k[1], opponent |-> k[2],
      points |-> LET g == SelectSeq(h, LAMBDA r : r.team = k[1] /\ r.opponent = k[2])
                 IN  <<SumField(g), Len(g)>>] :
        k \in {<<h[i].team, h[i].opponent>> : i \in 1..Len(h)}}

H2HPoints ==
    /\ pc = "tab4_h2h"
    /\ LET h == H2HLoop(filtered_scoreboard, selected_teams, 1, <<>>) IN
       /\ h2h_points' = h
       /\ avg_h2h' = IF h # <<>> THEN GroupMean(h) ELSE {}
    /\ pc' = "summary"
    /\ UNCHANGED <<rosters_file, scoreboard_file, rosters_df, scoreboard_df, errors,
                   selected_teams, week_range, filtered_scoreboard, filtered_rosters,
                   win_data, team_idx, win_matrix, avg_points, max_points,
                   top_scorer, total_games, weeks_played, fault>>

\* ---- season summary ----
\* filtered_scoreboard['team_points'].mean(): NaN on an empty table
Mean(df) == IF df = <<>> THEN NaN ELSE <<SumPoints(df), Len(df)>>

\* filtered_scoreboard['team_points'].max(): NaN on an empty table
Max(df) == IF df = <<>> THEN NaN ELSE Some(MaxOf({df[i].team_points : i \in 1..Len(df)}))

\* filtered_scoreboard[team_points == max_points]['manager_nickname']
TopRows(df, mx) == SelectSeq(df, LAMBDA r : mx # NaN /\ r.team_points = mx[1])

\* len(filtered_scoreboard) // 2
TotalGames(df) == Len(df) \div 2

\* filtered_scoreboard['week'].nunique()
WeeksPlayed(df) == Cardinality({df[i].week : i \in 1..Len(df)})

\* .iloc[0] of an empty selection raises IndexError and ends the run
Summary ==
    /\ pc = "summary"
    /\ avg_points' = Mean(filtered_scoreboard)
    /\ max_points' = Max(filtered_scoreboard)
    /\ LET top == TopRows(filtered_scoreboard, Max(filtered_scoreboard)) IN
       IF top = <<>>
         THEN /\ fault' = "IndexError"
              /\ pc' = "fault"
              /\ UNCHANGED <<top_scorer, total_games, weeks_played>>
         ELSE /\ top_scorer' = top[1].manager_nickname
              /\ total_games' = TotalGames(filtered_scoreboard)
              /\ weeks_played' = WeeksPlayed(filtered_scoreboard)
              /\ pc' = "done"
              /\ UNCHANGED fault
    /\ UNCHANGED <<rosters_file, scoreboard_file, rosters_df, scoreboard_df, errors,
                   selected_teams, week_range, filtered_scoreboard, filtered_rosters,
                   win_data, team_idx, win_matrix, h2h_points, avg_h2h>>

Next ==
    \/ load_data
    \/ NotLoaded
    \/ Sidebar
    \/ FilterScoreboard
    \/ WinDataStep
    \/ FilterRosters
    \/ WinMatrix
    \/ H2HPoints
    \/ Summary

Spec == Init /\ [][Next]_vars

SpecAny == InitAny /\ [][Next]_vars

SpecWin == InitWin /\ [][Next]_vars

SpecFilter == InitFilter /\ [][Next]_vars

\* ======================= properties =======================
Loaded == pc # "load_data" /\ rosters_df # None /\ scoreboard_df # None

\* the stages a run of the loaded page has completed
Completed(stages) ==
    /\ Loaded
    /\ pc \in stages \/ (pc = "fault" /\ fault = "IndexError")

Filtered == Completed({"tab1", "tab4_matrix", "tab4_h2h", "summary", "done"})

Tab1Done == Completed({"tab4_matrix", "tab4_h2h", "summary", "done"})

MatrixDone == Completed({"tab4_h2h", "summary", "done"})

H2HDone == Completed({"summary", "done"})

Selected == Range(selected_teams)

InSelection(week, entity) ==
    entity \in Selected /\ week_range[1] <= week /\ week <= week_range[2]

\* positions of the rows of table df that belong to the (week, matchup_id) group k
GroupAt(df, k) == {i \in 1..Len(df) : df[i].week = k[1] /\ df[i].matchup_id = k[2]}

GroupKeys(df) == {<<df[i].week, df[i].matchup_id>> : i \in 1..Len(df)}

\* resolved matchups of the selection: the groups of the selected rows that
\* have exactly two rows
ResolvedMatchups ==
    {k \in GroupKeys(filtered_scoreboard) :
        Cardinality(GroupAt(filtered_scoreboard, k)) = 2}

\* the sum of the values of a function with a finite domain
RECURSIVE FnSum(_)
FnSum(f) ==
    IF DOMAIN f = {} THEN 0
    ELSE LET x == CHOOSE y \in DOMAIN f : TRUE
         IN  f[x] + FnSum([y \in DOMAIN f \ {x} |-> f[y]])

MatrixSum == FnSum([c \in Selected \X Selected |-> win_matrix[c[1]][c[2]]])

\* C1: the win matrix gains exactly 1 per resolved matchup, so the sum of its
\* cells equals the number of resolved matchups of the selection
C1_SumIsResolvedCount == MatrixDone => MatrixSum = Cardinality(ResolvedMatchups)

\* the loaded scoreboard without the rows of group k
WithoutGroup(df, k) == SelectSeq(df, LAMBDA r : ~(r.week = k[1] /\ r.matchup_id = k[2]))

\* a group of the loaded table that the specification does not resolve: not
\* exactly two rows, or a row of an entity outside the selection
NotResolvable(k) ==
    LET g == GroupAt(scoreboard_df[1], k) IN
    \/ Cardinality(g) # 2
    \/ \E i \in g : scoreboard_df[1][i].manager_nickname \notin Selected

\* C2: a loaded (week, matchup_id) group that is not exactly two rows of selected
\* entities contributes nothing: without its rows, the win matrix and the
\* head-to-head records come out the same
C2_UnresolvableContributesNothing ==
    H2HDone =>
        \A k \in GroupKeys(scoreboard_df[1]) :
            NotResolvable(k) =>
                LET rest == filter_scoreboard(WithoutGroup(scoreboard_df[1], k),
                                              selected_teams, week_range)
                IN  /\ win_matrix = MatrixLoop(rest, selected_teams, 1,
                                               ZeroMatrix(selected_teams))
                    /\ h2h_points = H2HLoop(rest, selected_teams, 1, <<>>)

\* C3: when exactly one input file is absent, the other table is still loaded
C3_OtherTableStillLoaded ==
    pc # "load_data" =>
        /\ (rosters_file = NoFile /\ scoreboard_file # NoFile) => scoreboard_df # None
        /\ (scoreboard_file = NoFile /\ rosters_file # NoFile) => rosters_df # None

\* C4: an entity is credited with a win over another only if, in some resolved
\* matchup, it scored strictly more points than that opponent
C4_WinnerOutscoredLoser ==
    MatrixDone =>
        \A w, l \in Selected :
            win_matrix[w][l] > 0 =>
                \E k \in ResolvedMatchups :
                    \E i, j \in GroupAt(filtered_scoreboard, k) :
                        /\ i # j
                        /\ filtered_scoreboard[i].manager_nickname = w
                        /\ filtered_scoreboard[j].manager_nickname = l
                        /\ filtered_scoreboard[i].team_points
                               > filtered_scoreboard[j].team_points

\* the rows of an entity in the selection, by position in the loaded table
EntityRows(e) ==
    {i \in 1..Len(scoreboard_df[1]) :
        /\ scoreboard_df[1][i].manager_nickname = e
        /\ InSelection(scoreboard_df[1][i].week, e)}

\* the orders in which the games of an entity can be taken: its rows in
\* ascending week order
GameOrders(e) ==
    {o \in [1..Cardinality(EntityRows(e)) -> EntityRows(e)] :
        /\ \A a, b \in DOMAIN o : a # b => o[a] # o[b]
        /\ \A a, b \in DOMAIN o :
               a < b => scoreboard_df[1][o[a]].week <= scoreboard_df[1][o[b]].week}

IsWin(i) == scoreboard_df[1][i].winner_team_key = scoreboard_df[1][i].team_key

\* C5: the k-th value emitted for an entity is (wins in its first k games) / k
\* * 100, its games taken in ascending week order, and lies in [0, 100]
C5_CumulativeWinPct ==
    Tab1Done =>
        \A t \in 1..Len(selected_teams) :
            \E o \in GameOrders(selected_teams[t]) :
                /\ Len(win_data[t]) = Cardinality(EntityRows(selected_teams[t]))
                /\ \A k \in 1..Len(win_data[t]) :
                       LET pct == win_data[t][k].win_percentage
                           won == Cardinality({a \in 1..k : IsWin(o[a])})
                       IN  /\ win_data[t][k].week = scoreboard_df[1][o[k]].week
                           /\ win_data[t][k].manager_nickname = selected_teams[t]
                           /\ pct[2] > 0
                           /\ pct[1] * k = won * 100 * pct[2]
                           /\ 0 <= pct[1] /\ pct[1] <= 100 * pct[2]

C5_Witness ==
    /\ Tab1Done
    /\ \E t \in 1..Len(selected_teams) :
           /\ Len(win_data[t]) >= 3
           /\ win_data[t][1].win_percentage = <<100, 1>>
           /\ win_data[t][2].win_percentage = <<100, 2>>
           /\ win_data[t][3].win_percentage = <<200, 3>>

Count(df, r) == Cardinality({i \in 1..Len(df) : df[i] = r})

\* C6: each filter returns exactly the input rows whose entity is selected and
\* whose week lies in the inclusive range, no other row and none of them missing
C6_FilterIsSelection ==
    /\ Filtered =>
           \A r \in Range(scoreboard_df[1]) \cup Range(filtered_scoreboard) :
               Count(filtered_scoreboard, r) =
                   IF InSelection(r.week, r.manager_nickname)
                     THEN Count(scoreboard_df[1], r) ELSE 0
    /\ Tab1Done =>
           \A r \in Range(rosters_df[1]) \cup Range(filtered_rosters) :
               Count(filtered_rosters, r) =
                   IF InSelection(r.week, r.manager_name)
                     THEN Count(rosters_df[1], r) ELSE 0

C6_Witness ==
    /\ Tab1Done
    /\ filtered_scoreboard # <<>> /\ Len(filtered_scoreboard) < Len(scoreboard_df[1])
    /\ filtered_rosters # <<>> /\ Len(filtered_rosters) < Len(rosters_df[1])
    /\ week_range = <<2, 2>>

\* C7: the win matrix is indexed by exactly the selected entities, its diagonal
\* is zero and every cell is a non-negative integer
C7_MatrixShape ==
    MatrixDone =>
        /\ DOMAIN win_matrix = Selected
        /\ \A w \in Selected :
               /\ DOMAIN win_matrix[w] = Selected
               /\ win_matrix[w][w] = 0
               /\ \A l \in Selected : win_matrix[w][l] \in Nat

\* the sides of the resolved matchups played by team against opponent:
\* <<i, j>> with i the row of team and j the row of opponent
Sides(team, opponent) ==
    {p \in (1..Len(filtered_scoreboard)) \X (1..Len(filtered_scoreboard)) :
        /\ p[1] # p[2]
        /\ \E k \in ResolvedMatchups :
               p[1] \in GroupAt(filtered_scoreboard, k)
               /\ p[2] \in GroupAt(filtered_scoreboard, k)
        /\ filtered_scoreboard[p[1]].manager_nickname = team
        /\ filtered_scoreboard[p[2]].manager_nickname = opponent}

PerfectlyPaired ==
    \A k \in GroupKeys(scoreboard_df[1]) : Cardinality(GroupAt(scoreboard_df[1], k)) = 2

\* C9: the 'Total Games' value equals the number of resolved matchups of the
\* selection; stated for the perfectly paired tables the specification assumes,
\* where it already fails
C9_TotalGamesIsResolvedCount ==
    (Loaded /\ pc = "done" /\ PerfectlyPaired)
        => total_games = Cardinality(ResolvedMatchups)

\* the sidebar has returned a selection (entities and week range)
SelectionMade == Loaded /\ pc \notin {"load_data", "guard"} /\ fault # "ValueError"

\* C10: when both tables are loaded, for every selection the run reaches its end
\* without an unhandled fault, a selection with no scoreboard row included
C10_NoFault == SelectionMade => pc # "fault"

====
